---------------------------- MODULE Spec2Model ----------------------------
(***************************************************************************)
(* Model of the MCP worker (src/src/main.rs): main, command_listener and   *)
(* execute_task, together with the broker (Redis lists and keys) and the   *)
(* docker subprocess they talk to.                                         *)
(*                                                                         *)
(* Text is modelled as it is in the program: a Rust String is a sequence   *)
(* of Unicode code points, what travels to the broker or comes out of a    *)
(* subprocess is a sequence of bytes, and the two are related by UTF-8     *)
(* encoding and by String::from_utf8_lossy.                                *)
(***************************************************************************)
EXTENDS Integers, Sequences, FiniteSets, TLC

(***************************************************************************)
(* String literals of the program, as code point sequences.                *)
(***************************************************************************)
SUCCESS_PREFIX == \* "SUCCESS: "
  <<83, 85, 67, 67, 69, 83, 83, 58, 32>>
ERROR_PREFIX == \* "ERROR: "
  <<69, 82, 82, 79, 82, 58, 32>>
RESULT_KEY_PREFIX == \* "mcp::result::"
  <<109, 99, 112, 58, 58, 114, 101, 115, 117, 108, 116, 58, 58>>
SHELL_MOCK_OUTPUT == \* "Shell command executed successfully."
  <<83, 104, 101, 108, 108, 32, 99, 111, 109, 109, 97, 110, 100, 32, 101,
    120, 101, 99, 117, 116, 101, 100, 32, 115, 117, 99, 99, 101, 115, 115,
    102, 117, 108, 108, 121, 46>>
UNSUPPORTED_PREFIX == \* "Unsupported Docker command: "
  <<85, 110, 115, 117, 112, 112, 111, 114, 116, 101, 100, 32, 68, 111, 99,
    107, 101, 114, 32, 99, 111, 109, 109, 97, 110, 100, 58, 32>>
DOCKER_FAILED_PREFIX == \* "Docker command failed: "
  <<68, 111, 99, 107, 101, 114, 32, 99, 111, 109, 109, 97, 110, 100, 32,
    102, 97, 105, 108, 101, 100, 58, 32>>
LAUNCH_FAILED_PREFIX == \* "Failed to execute docker command: "
  <<70, 97, 105, 108, 101, 100, 32, 116, 111, 32, 101, 120, 101, 99, 117,
    116, 101, 32, 100, 111, 99, 107, 101, 114, 32, 99, 111, 109, 109, 97,
    110, 100, 58, 32>>
LIST_CONTAINERS == \* "list_containers"
  <<108, 105, 115, 116, 95, 99, 111, 110, 116, 97, 105, 110, 101, 114, 115>>
VARIANT_DOCKER == \* "DOCKER"
  <<68, 79, 67, 75, 69, 82>>
VARIANT_SHELL == \* "SHELL"
  <<83, 72, 69, 76, 76>>

\* The expiry handed to set_ex and the back-off after a failed pop, in seconds.
RESULT_TTL == 3600
POP_ERROR_SLEEP == 5

\* The two lists named with the docker list first.
queue_keys_docker_first == <<"mcp::tasks::docker", "mcp::tasks::shell">>

\* The two lists the worker pops from, in the order blpop is given them.
queue_keys == <<"mcp::tasks::shell", "mcp::tasks::docker">>

(***************************************************************************)
(* UTF-8.  String::from_utf8_lossy walks the bytes, keeps every well       *)
(* formed sequence and replaces every maximal ill-formed prefix by U+FFFD. *)
(***************************************************************************)
REPLACEMENT_CHARACTER == 65533

IsCont(b) == b >= 128 /\ b <= 191

\* The admissible range of the second byte after lead byte b0.
SecondOk(b0, b1) ==
  CASE b0 = 224 -> b1 >= 160 /\ b1 <= 191
    [] b0 = 237 -> b1 >= 128 /\ b1 <= 159
    [] b0 = 240 -> b1 >= 144 /\ b1 <= 191
    [] b0 = 244 -> b1 >= 128 /\ b1 <= 143
    [] OTHER    -> IsCont(b1)

\* The chunk starting at position i of bytes: how many bytes it takes and
\* the code point it yields (U+FFFD for an ill-formed chunk).
Utf8ChunkAt(bytes, i) ==
  LET n  == Len(bytes)
      b0 == bytes[i]
      has(k) == i + k <= n
      bad(len) == [len |-> len, cp |-> REPLACEMENT_CHARACTER]
  IN  IF b0 < 128 THEN [len |-> 1, cp |-> b0]
      ELSE IF b0 >= 194 /\ b0 <= 223 THEN
        IF has(1) /\ IsCont(bytes[i + 1])
          THEN [len |-> 2, cp |-> (b0 - 192) * 64 + (bytes[i + 1] - 128)]
          ELSE bad(1)
      ELSE IF b0 >= 224 /\ b0 <= 239 THEN
        IF ~(has(1) /\ SecondOk(b0, bytes[i + 1])) THEN bad(1)
        ELSE IF ~(has(2) /\ IsCont(bytes[i + 2])) THEN bad(2)
        ELSE [len |-> 3,
              cp  |-> (b0 - 224) * 4096 + (bytes[i + 1] - 128) * 64
                      + (bytes[i + 2] - 128)]
      ELSE IF b0 >= 240 /\ b0 <= 244 THEN
        IF ~(has(1) /\ SecondOk(b0, bytes[i + 1])) THEN bad(1)
        ELSE IF ~(has(2) /\ IsCont(bytes[i + 2])) THEN bad(2)
        ELSE IF ~(has(3) /\ IsCont(bytes[i + 3])) THEN bad(3)
        ELSE [len |-> 4,
              cp  |-> (b0 - 240) * 262144 + (bytes[i + 1] - 128) * 4096
                      + (bytes[i + 2] - 128) * 64 + (bytes[i + 3] - 128)]
      ELSE bad(1)

RECURSIVE Utf8LossyFrom(_, _)
Utf8LossyFrom(bytes, i) ==
  IF i > Len(bytes) THEN <<>>
  ELSE LET c == Utf8ChunkAt(bytes, i)
       IN  <<c.cp>> \o Utf8LossyFrom(bytes, i + c.len)

\* String::from_utf8_lossy(bytes).to_string()
from_utf8_lossy(bytes) == Utf8LossyFrom(bytes, 1)

\* The UTF-8 encoding of one code point.
Utf8EncodeChar(cp) ==
  IF cp < 128 THEN <<cp>>
  ELSE IF cp < 2048 THEN <<192 + (cp \div 64), 128 + (cp % 64)>>
  ELSE IF cp < 65536 THEN
    <<224 + (cp \div 4096), 128 + ((cp \div 64) % 64), 128 + (cp % 64)>>
  ELSE <<240 + (cp \div 262144), 128 + ((cp \div 4096) % 64),
         128 + ((cp \div 64) % 64), 128 + (cp % 64)>>

RECURSIVE Utf8Concat(_, _, _)
\* The concatenation of enc[lo], ..., enc[hi], by halves.
Utf8Concat(enc, lo, hi) ==
  IF lo > hi THEN <<>>
  ELSE IF lo = hi THEN enc[lo]
  ELSE Utf8Concat(enc, lo, (lo + hi) \div 2)
       \o Utf8Concat(enc, ((lo + hi) \div 2) + 1, hi)

\* The bytes of a String: what the broker client sends for a String
\* argument.  The encodings of its code points, in order.
as_bytes(s) ==
  Utf8Concat([i \in 1 .. Len(s) |-> Utf8EncodeChar(s[i])], 1, Len(s))

\* Whether a byte sequence is well-formed UTF-8.
IsUtf8(bytes) == as_bytes(from_utf8_lossy(bytes)) = bytes

(***************************************************************************)
(* JSON.  A payload is the text of one list element.  Its parse is kept as *)
(* the tree serde_json builds from it: a text that is no JSON at all, a    *)
(* JSON value that is no object, or an object with the members the Task    *)
(* struct reads (members it does not name are ignored by the derive).      *)
(***************************************************************************)
\* A JSON value that is not an object: kind is "string", "number", "null",
\* or "absent" for a member the object does not have.
JStr(s)  == [kind |-> "string", str |-> s]
JNum     == [kind |-> "number", str |-> <<>>]
JNull    == [kind |-> "null",   str |-> <<>>]
JAbsent  == [kind |-> "absent", str |-> <<>>]

\* The details member: any JSON value; an object carries its "command" member.
DObj(c)   == [kind |-> "object", str |-> <<>>, command |-> c]
DScalar(v) == [kind |-> v.kind,  str |-> v.str, command |-> JAbsent]

\* A payload: form is "malformed" (not JSON), "scalar" (JSON, not an object)
\* or "object".
Payload(form, id, host, tt, d) ==
  [form |-> form, id |-> id, target_host |-> host, task_type |-> tt,
   details |-> d]

\* struct Task
MkTask(id, host, tt, d) ==
  [id |-> id, target_host |-> host, task_type |-> tt, details |-> d]
NoTask == MkTask(<<>>, <<>>, "NONE", DScalar(JNull))

\* A string with its ASCII lower-case letters made upper-case.
to_ascii_uppercase(s) ==
  [i \in 1 .. Len(s) |-> IF s[i] \in 97 .. 122 THEN s[i] - 32 ELSE s[i]]

\* A match of the variant names that ignores the case of ASCII letters.
TaskTypeOf_ignore_case(v) ==
  IF v.kind # "string" THEN "NONE"
  ELSE IF to_ascii_uppercase(v.str) = VARIANT_DOCKER THEN "DOCKER"
  ELSE IF to_ascii_uppercase(v.str) = VARIANT_SHELL THEN "SHELL"
  ELSE "NONE"

\* enum TaskType with rename_all = "UPPERCASE": the variant a JSON value
\* names, or "NONE".  The names are compared code point by code point.
TaskTypeOf(v) ==
  IF v.kind # "string" THEN "NONE"
  ELSE IF v.str = VARIANT_DOCKER THEN "DOCKER"
  ELSE IF v.str = VARIANT_SHELL THEN "SHELL"
  ELSE "NONE"

\* A decoder that falls back to SHELL when task_type names no variant.
from_str_default_variant(p) ==
  IF /\ p.form = "object"
     /\ p.id.kind = "string"
     /\ p.target_host.kind = "string"
     /\ p.details.kind # "absent"
  THEN [ok |-> TRUE,
        task |-> MkTask(p.id.str, p.target_host.str,
                        IF TaskTypeOf(p.task_type) = "NONE"
                          THEN "SHELL" ELSE TaskTypeOf(p.task_type),
                        p.details)]
  ELSE [ok |-> FALSE, task |-> NoTask]

\* A decoder for which target_host and details are optional: a missing
\* target_host is the empty string and a missing details is null.
from_str_optional_fields(p) ==
  IF /\ p.form = "object"
     /\ p.id.kind = "string"
     /\ p.target_host.kind \in {"string", "absent"}
     /\ TaskTypeOf(p.task_type) # "NONE"
  THEN [ok |-> TRUE,
        task |-> MkTask(p.id.str, p.target_host.str,
                        TaskTypeOf(p.task_type),
                        IF p.details.kind = "absent"
                          THEN DScalar(JNull) ELSE p.details)]
  ELSE [ok |-> FALSE, task |-> NoTask]

\* serde_json::from_str::<Task>(&json_str): Ok(task) or Err.  Every field of
\* the struct is required: a String field takes a JSON string only, the
\* TaskType field a variant name, and the Value field any JSON value that is
\* present.
from_str(p) ==
  IF /\ p.form = "object"
     /\ p.id.kind = "string"
     /\ p.target_host.kind = "string"
     /\ TaskTypeOf(p.task_type) # "NONE"
     /\ p.details.kind # "absent"
  THEN [ok |-> TRUE,
        task |-> MkTask(p.id.str, p.target_host.str,
                        TaskTypeOf(p.task_type), p.details)]
  ELSE [ok |-> FALSE, task |-> NoTask]

(***************************************************************************)
(* execute_task and the formatting of its result.                          *)
(***************************************************************************)
Ok(s)  == [ok |-> TRUE,  text |-> s]
Err(s) == [ok |-> FALSE, text |-> s]
NoResult == [ok |-> FALSE, text |-> <<>>]

\* A lookup that takes a details that is itself a string for the command.
command_of_string_details(task) ==
  IF task.details.kind = "object" /\ task.details.command.kind = "string"
    THEN task.details.command.str
  ELSE IF task.details.kind = "string" THEN task.details.str
  ELSE <<>>

\* task.details["command"].as_str().unwrap_or("")
command_of(task) ==
  IF task.details.kind = "object" /\ task.details.command.kind = "string"
    THEN task.details.command.str
    ELSE <<>>

\* A dispatch that looks at the command before the task type.
arm_of_command_first(task) ==
  IF command_of(task) = LIST_CONTAINERS THEN "list_containers"
  ELSE IF task.task_type = "SHELL" THEN "shell"
  ELSE "unsupported"

\* The arm of execute_task a task takes: "shell", "list_containers" (a
\* subprocess is launched) or "unsupported".
arm_of(task) ==
  IF task.task_type = "SHELL" THEN "shell"
  ELSE IF command_of(task) = LIST_CONTAINERS THEN "list_containers"
  ELSE "unsupported"

\* The result of the arms that launch nothing.
execute_task_direct(task) ==
  IF arm_of(task) = "shell" THEN Ok(SHELL_MOCK_OUTPUT)
  ELSE Err(UNSUPPORTED_PREFIX \o command_of(task))

\* .map_err(|e| format!("Failed to execute docker command: {}", e))
launch_failed(e) == Err(LAUNCH_FAILED_PREFIX \o e)

\* A result that reports stdout whatever the exit status.
output_result_stdout_only(status, stdout, stderr) ==
  IF status = 0
    THEN Ok(from_utf8_lossy(stdout))
    ELSE Err(DOCKER_FAILED_PREFIX \o from_utf8_lossy(stdout))

\* A result that trims trailing line feeds from stdout.
output_result_trimmed(status, stdout, stderr) ==
  LET text == from_utf8_lossy(stdout)
      cut  == IF text # <<>> /\ text[Len(text)] = 10
                THEN SubSeq(text, 1, Len(text) - 1) ELSE text
  IN  IF status = 0
        THEN Ok(cut)
        ELSE Err(DOCKER_FAILED_PREFIX \o from_utf8_lossy(stderr))

\* The result made from the output of the subprocess once it has exited.
output_result(status, stdout, stderr) ==
  IF status = 0
    THEN Ok(from_utf8_lossy(stdout))
    ELSE Err(DOCKER_FAILED_PREFIX \o from_utf8_lossy(stderr))

\* format!("mcp::result::{}", task.id)
res_key(task) == RESULT_KEY_PREFIX \o task.id

\* A value that carries an error message bare, with no prefix.
res_val_bare(task_result) ==
  IF task_result.ok THEN SUCCESS_PREFIX \o task_result.text
                    ELSE task_result.text

\* match task_result { Ok(output) => format!("SUCCESS: {}", output), ... }
res_val(task_result) ==
  IF task_result.ok THEN SUCCESS_PREFIX \o task_result.text
                    ELSE ERROR_PREFIX \o task_result.text

(***************************************************************************)
(* Bounds of the model and the inputs the environment draws from.          *)
(***************************************************************************)
\* How many payloads submitters push onto the two lists in one run.
MaxEnqueued == 2
\* How many worker processes there can be.
MaxWorkers == 2

Workers == 1 .. MaxWorkers

S_t1 == <<116, 49>>                       \* "t1"
S_t2 == <<116, 50>>                       \* "t2"
S_h1 == <<104, 49>>                       \* "h1"
S_bogus == <<98, 111, 103, 117, 115>>     \* "bogus"
S_docker == <<100, 111, 99, 107, 101, 114>>  \* "docker"
S_Shell == <<83, 104, 101, 108, 108>>         \* "Shell"
S_enoent == \* "No such file or directory (os error 2)"
  <<78, 111, 32, 115, 117, 99, 104, 32, 102, 105, 108, 101, 32, 111, 114,
    32, 100, 105, 114, 101, 99, 116, 111, 114, 121, 32, 40, 111, 115, 32,
    101, 114, 114, 111, 114, 32, 50, 41>>

TaskPayload(id, tt, d) == Payload("object", JStr(id), JStr(S_h1), JStr(tt), d)

\* Payloads that decode: SHELL and DOCKER tasks over every shape of details
\* the executor tells apart.
GoodPayloads ==
  { TaskPayload(S_t1, VARIANT_SHELL, DObj(JStr(LIST_CONTAINERS))),
    TaskPayload(S_t2, VARIANT_SHELL, DScalar(JNull)),
    TaskPayload(S_t1, VARIANT_DOCKER, DObj(JStr(LIST_CONTAINERS))),
    TaskPayload(S_t2, VARIANT_DOCKER, DObj(JStr(LIST_CONTAINERS))),
    TaskPayload(S_t1, VARIANT_DOCKER, DObj(JStr(S_bogus))),
    TaskPayload(S_t1, VARIANT_DOCKER, DObj(JStr(<<>>))),
    TaskPayload(S_t2, VARIANT_DOCKER, DObj(JNum)),
    TaskPayload(S_t1, VARIANT_DOCKER, DObj(JAbsent)),
    TaskPayload(S_t1, VARIANT_DOCKER, DScalar(JStr(LIST_CONTAINERS))) }

\* Payloads that do not decode.
BadPayloads ==
  { Payload("malformed", JAbsent, JAbsent, JAbsent, DScalar(JAbsent)),
    Payload("scalar", JAbsent, JAbsent, JAbsent, DScalar(JAbsent)),
    Payload("object", JAbsent, JStr(S_h1), JStr(VARIANT_DOCKER),
            DObj(JStr(LIST_CONTAINERS))),
    Payload("object", JNum, JStr(S_h1), JStr(VARIANT_SHELL), DScalar(JNull)),
    Payload("object", JStr(S_t1), JStr(S_h1), JAbsent,
            DObj(JStr(LIST_CONTAINERS))),
    Payload("object", JStr(S_t1), JStr(S_h1), JStr(S_docker),
            DObj(JStr(LIST_CONTAINERS))),
    Payload("object", JStr(S_t1), JStr(S_h1), JStr(S_Shell),
            DScalar(JNull)),
    Payload("object", JStr(S_t1), JAbsent, JStr(VARIANT_SHELL),
            DScalar(JNull)),
    Payload("object", JStr(S_t1), JStr(S_h1), JStr(VARIANT_SHELL),
            DScalar(JAbsent)),
    Payload("object", JStr(S_t1), JAbsent, JStr(VARIANT_DOCKER),
            DObj(JStr(LIST_CONTAINERS))) }

Payloads == GoodPayloads \cup BadPayloads
\* The payloads of the runs checked for progress: one per way an iteration
\* can go.
LivePayloads ==
  { p \in Payloads :
      \/ p.form = "malformed"
      \/ p.id = JStr(S_t1) /\ p.task_type = JStr(S_docker)
      \/ p.id = JStr(S_t1) /\ p.task_type = JStr(VARIANT_SHELL)
           /\ p.details.kind = "object"
      \/ p.id = JStr(S_t2) /\ p.task_type = JStr(VARIANT_DOCKER) }

\* The payloads of the runs with several workers: tasks that carry the same
\* id and go each way through the executor.
SharedPayloads ==
  { p \in GoodPayloads :
      /\ p.id = JStr(S_t1)
      /\ p.details.kind = "object"
      /\ p.details.command \in {JStr(LIST_CONTAINERS), JStr(S_bogus)} }

\* The payloads a run draws from, by the name the run carries in pool.
PoolOf(name) ==
  CASE name = "LivePayloads" -> LivePayloads
    [] name = "SharedPayloads" -> SharedPayloads
    [] OTHER -> Payloads

NoPayload == Payload("none", JAbsent, JAbsent, JAbsent, DScalar(JAbsent))

\* What a subprocess can write to a pipe: nothing, ASCII, a two-byte
\* character, and bytes that are not UTF-8.
Outputs == { <<>>, <<99, 10>>, <<195, 169>>, <<99, 255>> }

\* How the docker subprocess can end: exit status, stdout, stderr.  The
\* stream the executor does not read for a status is empty or not.
Outcomes ==
  { [status |-> 0, stdout |-> o, stderr |-> e] :
      o \in Outputs, e \in {<<>>, <<99, 10>>} }
  \cup
  { [status |-> 1, stdout |-> o, stderr |-> e] :
      o \in {<<>>, <<99, 10>>}, e \in Outputs }

\* The ways the subprocess ends in the runs with several workers: with
\* success and a line on stdout, or with a failure and a line on stderr.
SharedOutcomes ==
  { o \in Outcomes :
      \/ o.status = 0 /\ o.stdout = <<99, 10>> /\ o.stderr = <<>>
      \/ o.status = 1 /\ o.stdout = <<>> /\ o.stderr = <<99, 10>> }

\* The subprocess outcomes a run draws from, by the name it carries in pool.
OutcomesOf(name) ==
  IF name = "SharedPayloads" THEN SharedOutcomes ELSE Outcomes

\* The io::Error texts a failed launch can carry.
LaunchErrors == { S_enoent }

(***************************************************************************)
(* State.                                                                  *)
(***************************************************************************)
VARIABLES
  running,      \* the worker processes of this run
  pool,         \* which payloads submitters push in this run (see PoolOf)
                \* and how its subprocesses can end (see OutcomesOf)
  enqueued,     \* how many payloads have been pushed so far
  queues,       \* broker: list name -> its elements, head first; an element
                \* is a payload with the ordinal of its push (see Element)
  store,        \* broker: the keys set with an expiry, as {key, val, ttl}
  pc,           \* per worker: where it is in main / command_listener
  popped,       \* per worker: the list the last successful pop took from,
                \* and the ordinal of the element it took
  got,          \* per worker: the ordinals of all the elements it has popped
  json_str,     \* per worker: the payload of the last successful pop
  task,         \* per worker: the Task decoded from json_str
  task_result,  \* per worker: what execute_task returned for task
  trace,        \* per worker: the calls it made since it last issued blpop
  logs          \* per worker: the log lines it wrote since it last issued blpop

vars == <<running, pool, enqueued, queues, store, pc, popped, got, json_str,
          task, task_result, trace, logs>>

\* One list element: the payload and the ordinal of its push.
Element(seq, p) == [seq |-> seq, payload |-> p]

\* What a worker that has popped nothing holds for the pop.
NoPop == [queue_name |-> "none", seq |-> 0]

\* One call on the outside world: op is "blpop", "spawn", "exit" (of the
\* subprocess), "set_ex" or "sleep".
Ev(op, ok, a, b, n) == [op |-> op, ok |-> ok, a |-> a, b |-> b, n |-> n]

TypeOK ==
  /\ running \subseteq Workers
  /\ enqueued \in 0 .. MaxEnqueued
  /\ \A w \in Workers :
       pc[w] \in {"start", "connect", "exit", "pop", "sleep", "decode",
                  "execute", "output", "set_ex"}

InitWith(rs, ps) ==
  /\ running = rs
  /\ pool = ps
  /\ enqueued = 0
  /\ queues = [q \in {queue_keys[1], queue_keys[2]} |-> <<>>]
  /\ store = {}
  /\ pc = [w \in Workers |-> "start"]
  /\ popped = [w \in Workers |-> NoPop]
  /\ got = [w \in Workers |-> {}]
  /\ json_str = [w \in Workers |-> NoPayload]
  /\ task = [w \in Workers |-> NoTask]
  /\ task_result = [w \in Workers |-> NoResult]
  /\ trace = [w \in Workers |-> <<>>]
  /\ logs = [w \in Workers |-> <<>>]

Init == InitWith({1}, "Payloads")

(***************************************************************************)
(* The broker.                                                             *)
(***************************************************************************)
\* RPUSH by a submitter.
rpush(qs, q, p) == [qs EXCEPT ![q] = Append(@, p)]

\* A pop that is given the shell list alone.
first_nonempty_shell_only(qs) ==
  IF qs["mcp::tasks::shell"] # <<>> THEN "mcp::tasks::shell" ELSE "none"

\* BLPOP keys 0: the first list, in the order given, that is not empty.
first_nonempty(qs) ==
  IF qs[queue_keys[1]] # <<>> THEN queue_keys[1]
  ELSE IF qs[queue_keys[2]] # <<>> THEN queue_keys[2]
  ELSE "none"

\* A pop that leaves the element in the list.
lpop_peek(qs, q) == qs

\* The lists after the head of list q has been handed to a client.
lpop(qs, q) == [qs EXCEPT ![q] = Tail(@)]

\* A set that leaves a key alone when it holds a value already (SET NX).
set_ex_nx(st, key, val, ttl) ==
  IF \E e \in st : e.key = key
    THEN st
    ELSE st \cup {[key |-> key, val |-> val, ttl |-> ttl]}

\* SET key val EX ttl: the key holds val alone afterwards.
set_ex(st, key, val, ttl) ==
  {e \in st : e.key # key} \cup {[key |-> key, val |-> val, ttl |-> ttl]}

(***************************************************************************)
(* The steps of one worker process.                                        *)
(***************************************************************************)
\* A listener that hands the decoded task to a spawned future and goes
\* straight back to the pop.
after_parse_spawned(ok) == "pop"

\* A listener that gives up on a payload it cannot parse.
after_parse_unwrap(ok) == IF ok THEN "execute" ELSE "exit"

\* Where command_listener goes after the parse: on to the executor, or
\* back to the top of the loop.
after_parse(ok) == IF ok THEN "execute" ELSE "pop"

\* Where command_listener goes after a failed pop and after the sleep.
after_pop_error == "sleep"
after_sleep == "pop"

\* A listener that tries the write again when it failed.
after_set_ex_retry(ok) == IF ok THEN "pop" ELSE "set_ex"

\* Where command_listener goes after set_ex returned, whatever it returned.
after_set_ex(ok) == "pop"

\* The log line written after set_ex returned, whatever it returned.
log_after_set_ex(ok) == "Result for task written to Redis."

\* A back-off that does not sleep.
sleeps_after_pop_error_none == <<>>

\* The sleeps command_listener makes after a failed pop.
sleeps_after_pop_error == <<Ev("sleep", TRUE, <<>>, <<>>, POP_ERROR_SLEEP)>>

\* A write-back that repeats the call.
writes_for_twice(t, r) ==
  <<[key |-> as_bytes(res_key(t)), val |-> as_bytes(res_val(r)),
     ttl |-> RESULT_TTL],
    [key |-> as_bytes(res_key(t)), val |-> as_bytes(res_val(r)),
     ttl |-> RESULT_TTL]>>

\* A write-back whose key carries the number of elements taken so far.
writes_for_numbered(t, r) ==
  <<[key |-> as_bytes(res_key(t)
                \o <<48 + Cardinality(UNION {got[w] : w \in Workers})>>),
     val |-> as_bytes(res_val(r)), ttl |-> RESULT_TTL]>>

\* The set_ex calls command_listener makes for a decoded task and its result.
writes_for(t, r) ==
  <<[key |-> as_bytes(res_key(t)), val |-> as_bytes(res_val(r)),
     ttl |-> RESULT_TTL]>>

\* A start-up that tries the connection again when it failed.
after_connect_retry(ok) == IF ok THEN "pop" ELSE "connect"

\* Where main goes after Client::open: on to the connection, or return.
after_client_open(ok) == IF ok THEN "connect" ELSE "exit"

\* Where main goes after get_multiplexed_async_connection: into
\* command_listener, or return.
after_connect(ok) == IF ok THEN "pop" ELSE "exit"

\* main: redis::Client::open
ClientOpen(w) ==
  /\ w \in running
  /\ pc[w] = "start"
  /\ \E ok \in BOOLEAN :
       /\ pc' = [pc EXCEPT ![w] = after_client_open(ok)]
       /\ logs' = [logs EXCEPT ![w] =
            <<"--- MCP-WORKER START ---">>
            \o (IF ok THEN <<>> ELSE <<"FATAL: Redis client creation failed">>)]
  /\ UNCHANGED <<running, pool, popped, got,
                 enqueued, queues, store, json_str, task,
                 task_result, trace>>

\* main: get_multiplexed_async_connection, then into command_listener
Connect(w) ==
  /\ w \in running
  /\ pc[w] = "connect"
  /\ \E ok \in BOOLEAN :
       /\ pc' = [pc EXCEPT ![w] = after_connect(ok)]
       /\ logs' = [logs EXCEPT ![w] = @ \o
            (IF ok THEN <<"Successfully connected to Redis.",
                          "Listening for commands on queues">>
                   ELSE <<"FATAL: Failed to get multiplexed Redis connection">>)]
  /\ UNCHANGED <<running, pool, popped, got,
                 enqueued, queues, store, json_str, task,
                 task_result, trace>>

\* command_listener: blpop returns an element
BlPop(w) ==
  /\ w \in running
  /\ pc[w] = "pop"
  /\ first_nonempty(queues) # "none"
  /\ LET q == first_nonempty(queues) IN
       /\ json_str' = [json_str EXCEPT ![w] = Head(queues[q]).payload]
       /\ popped' = [popped EXCEPT ![w] =
            [queue_name |-> q, seq |-> Head(queues[q]).seq]]
       /\ got' = [got EXCEPT ![w] = @ \cup {Head(queues[q]).seq}]
       /\ queues' = lpop(queues, q)
  /\ task' = [task EXCEPT ![w] = NoTask]
  /\ task_result' = [task_result EXCEPT ![w] = NoResult]
  /\ trace' = [trace EXCEPT ![w] = <<Ev("blpop", TRUE, <<>>, <<>>, 0)>>]
  /\ logs' = [logs EXCEPT ![w] = <<">>> RECEIVED">>]
  /\ pc' = [pc EXCEPT ![w] = "decode"]
  /\ UNCHANGED <<running, pool, enqueued, store>>

\* command_listener: blpop returns an error
BlPopError(w) ==
  /\ w \in running
  /\ pc[w] = "pop"
  /\ popped' = [popped EXCEPT ![w] = NoPop]
  /\ json_str' = [json_str EXCEPT ![w] = NoPayload]
  /\ task' = [task EXCEPT ![w] = NoTask]
  /\ task_result' = [task_result EXCEPT ![w] = NoResult]
  /\ trace' = [trace EXCEPT ![w] = <<Ev("blpop", FALSE, <<>>, <<>>, 0)>>]
  /\ logs' = [logs EXCEPT ![w] = <<"[ERROR] Redis Error in Loop">>]
  /\ pc' = [pc EXCEPT ![w] = after_pop_error]
  /\ UNCHANGED <<running, pool, got, enqueued, queues, store>>

\* command_listener: time::sleep(Duration::from_secs(5)) is over
Sleep(w) ==
  /\ w \in running
  /\ pc[w] = "sleep"
  /\ trace' = [trace EXCEPT ![w] = @ \o sleeps_after_pop_error]
  /\ pc' = [pc EXCEPT ![w] = after_sleep]
  /\ UNCHANGED <<running, pool, popped, got,
                 enqueued, queues, store, json_str, task,
                 task_result, logs>>

\* command_listener: serde_json::from_str::<Task>(&json_str)
Decode(w) ==
  /\ w \in running
  /\ pc[w] = "decode"
  /\ LET r == from_str(json_str[w]) IN
       /\ task' = [task EXCEPT ![w] = r.task]
       /\ logs' = [logs EXCEPT ![w] = Append(@,
            IF r.ok THEN "Processing Task ID" ELSE "[ERROR] JSON Parse Error")]
       /\ pc' = [pc EXCEPT ![w] = after_parse(r.ok)]
  /\ UNCHANGED <<running, pool, popped, got,
                 enqueued, queues, store, json_str,
                 task_result, trace>>

\* execute_task, up to its return or to the launch of the subprocess
Execute(w) ==
  /\ w \in running
  /\ pc[w] = "execute"
  /\ \/ /\ arm_of(task[w]) = "shell"
        /\ task_result' = [task_result EXCEPT ![w] = execute_task_direct(task[w])]
        /\ logs' = [logs EXCEPT ![w] = @ \o
             <<"Executing task type", "TaskType was SHELL.">>]
        /\ pc' = [pc EXCEPT ![w] = "set_ex"]
        /\ UNCHANGED trace
     \/ /\ arm_of(task[w]) = "unsupported"
        /\ task_result' = [task_result EXCEPT ![w] = execute_task_direct(task[w])]
        /\ logs' = [logs EXCEPT ![w] = Append(@, "Executing task type")]
        /\ pc' = [pc EXCEPT ![w] = "set_ex"]
        /\ UNCHANGED trace
     \/ /\ arm_of(task[w]) = "list_containers"
        /\ logs' = [logs EXCEPT ![w] = @ \o
             <<"Executing task type", "Executing docker ps -a">>]
        /\ \/ /\ trace' = [trace EXCEPT ![w] =
                   Append(@, Ev("spawn", TRUE, <<>>, <<>>, 0))]
              /\ pc' = [pc EXCEPT ![w] = "output"]
              /\ UNCHANGED task_result
           \/ \E e \in LaunchErrors :
                /\ trace' = [trace EXCEPT ![w] =
                     Append(@, Ev("spawn", FALSE, <<>>, e, 0))]
                /\ task_result' = [task_result EXCEPT ![w] = launch_failed(e)]
                /\ pc' = [pc EXCEPT ![w] = "set_ex"]
  /\ UNCHANGED <<running, pool, popped, got,
                 enqueued, queues, store, json_str, task>>

\* execute_task: the subprocess has exited and .output() returns
SubprocessExit(w) ==
  /\ w \in running
  /\ pc[w] = "output"
  /\ \E o \in OutcomesOf(pool) :
       /\ trace' = [trace EXCEPT ![w] =
            Append(@, Ev("exit", o.status = 0, o.stdout, o.stderr, o.status))]
       /\ task_result' = [task_result EXCEPT ![w] =
            output_result(o.status, o.stdout, o.stderr)]
  /\ pc' = [pc EXCEPT ![w] = "set_ex"]
  /\ UNCHANGED <<running, pool, popped, got,
                 enqueued, queues, store, json_str, task, logs>>

\* command_listener: conn.set_ex(&res_key, res_val, 3600) and the log after it
SetEx(w) ==
  /\ w \in running
  /\ pc[w] = "set_ex"
  /\ \E ok \in BOOLEAN, calls \in {writes_for(task[w], task_result[w])} :
       /\ trace' = [trace EXCEPT ![w] = @ \o
            [i \in 1 .. Len(calls) |->
               Ev("set_ex", ok, calls[i].key, calls[i].val, calls[i].ttl)]]
       /\ store' = IF ok /\ calls # <<>>
                     THEN set_ex(store, calls[Len(calls)].key,
                                 calls[Len(calls)].val, calls[Len(calls)].ttl)
                     ELSE store
       /\ logs' = [logs EXCEPT ![w] = Append(@, log_after_set_ex(ok))]
       /\ pc' = [pc EXCEPT ![w] = after_set_ex(ok)]
  /\ UNCHANGED <<running, pool, popped, got,
                 enqueued, queues, json_str, task, task_result>>

\* A submitter pushes a payload onto one of the lists.
Enqueue ==
  /\ enqueued < MaxEnqueued
  /\ \E q \in {queue_keys[1], queue_keys[2]}, p \in PoolOf(pool) :
       queues' = rpush(queues, q, Element(enqueued + 1, p))
  /\ enqueued' = enqueued + 1
  /\ UNCHANGED <<running, pool, popped, got,
                 store, pc, json_str, task, task_result,
                 trace, logs>>

WorkerStep(w) ==
  \/ ClientOpen(w)
  \/ Connect(w)
  \/ BlPop(w)
  \/ BlPopError(w)
  \/ Sleep(w)
  \/ Decode(w)
  \/ Execute(w)
  \/ SubprocessExit(w)
  \/ SetEx(w)

Next == Enqueue \/ \E w \in Workers : WorkerStep(w)

Spec == Init /\ [][Next]_vars

(***************************************************************************)
(* Reading a worker's trace.                                               *)
(***************************************************************************)
CallsOf(w, op) ==
  LET is(e) == e.op = op IN SelectSeq(trace[w], is)

PoppedOk    == Ev("blpop", TRUE, <<>>, <<>>, 0)
PopFailed   == Ev("blpop", FALSE, <<>>, <<>>, 0)

\* The worker is blocked in, or about to issue, the next blpop.
AtPop(w) == pc[w] = "pop"

BeginsWith(s, prefix) ==
  Len(s) >= Len(prefix) /\ SubSeq(s, 1, Len(prefix)) = prefix

\* The payload is a JSON object whose task_type is the string tt.
TypeIs(p, tt) ==
  p.form = "object" /\ p.task_type.kind = "string" /\ p.task_type.str = tt

\* The command a payload gives: the string at details.command, or the empty
\* string when details is no object or has no string there.
CommandGiven(p) ==
  IF p.details.kind = "object" /\ p.details.command.kind = "string"
    THEN p.details.command.str ELSE <<>>

(***************************************************************************)
(* C1                                                                      *)
(***************************************************************************)
\* The payload is not well-formed, or lacks id or task_type, or names an
\* unknown task_type.
FailsDecoding(p) ==
  \/ p.form \in {"malformed", "scalar"}
  \/ /\ p.form = "object"
     /\ \/ p.id.kind = "absent"
        \/ p.task_type.kind = "absent"
        \/ /\ p.task_type.kind = "string"
           /\ p.task_type.str \notin {VARIANT_DOCKER, VARIANT_SHELL}

\* C1: a popped payload that fails decoding leads to no set-with-expiry
\* call, no sleep and no exit: the only call the worker has made since it
\* issued the pop is that pop, and once the decode is over the worker is
\* back at the blocking pop.
C1_DecodeFailureDropsPayload ==
  \A w \in running :
    FailsDecoding(json_str[w]) =>
      /\ trace[w] = <<PoppedOk>>
      /\ pc[w] \in {"decode", "pop"}
      /\ task[w] = NoTask

C1_Witness ==
  \E w \in running :
    /\ FailsDecoding(json_str[w])
    /\ json_str[w].form = "object"
    /\ json_str[w].task_type.kind = "string"
    /\ AtPop(w)
    /\ logs[w] = <<">>> RECEIVED", "[ERROR] JSON Parse Error">>

(***************************************************************************)
(* C3                                                                      *)
(***************************************************************************)
\* C3: for a decoded task the worker makes no set-with-expiry call before
\* the executor has returned, and exactly one by the time it is back at the
\* pop; that call is the last thing it did, its key is "mcp::result::"
\* followed by the id of the payload, its value begins with "SUCCESS: " or
\* "ERROR: ", and its expiry is 3600 seconds.
C3_ExactlyOneWrite ==
  \A w \in running :
    task[w] # NoTask =>
      LET writes == CallsOf(w, "set_ex") IN
      /\ pc[w] \in {"execute", "output", "set_ex", "pop"}
      /\ pc[w] \in {"execute", "output", "set_ex"} => writes = <<>>
      /\ AtPop(w) =>
           /\ Len(writes) = 1
           /\ trace[w][Len(trace[w])] = writes[1]
           /\ writes[1].a = as_bytes(RESULT_KEY_PREFIX \o json_str[w].id.str)
           /\ \/ BeginsWith(writes[1].b, as_bytes(SUCCESS_PREFIX))
              \/ BeginsWith(writes[1].b, as_bytes(ERROR_PREFIX))
           /\ writes[1].n = 3600

C3_Witness ==
  \E w \in running :
    /\ task[w] # NoTask
    /\ AtPop(w)
    /\ Len(CallsOf(w, "exit")) = 1
    /\ Len(CallsOf(w, "set_ex")) = 1
    /\ CallsOf(w, "set_ex")[1].a = as_bytes(RESULT_KEY_PREFIX \o S_t2)

(***************************************************************************)
(* C4                                                                      *)
(***************************************************************************)
\* C4: for a decoded DOCKER task whose command is not "list_containers",
\* no subprocess is launched, and the one value written is
\* "ERROR: Unsupported Docker command: " followed by the command given.
C4_UnsupportedDockerCommand ==
  \A w \in running :
    ( /\ task[w] # NoTask
      /\ TypeIs(json_str[w], VARIANT_DOCKER)
      /\ CommandGiven(json_str[w]) # LIST_CONTAINERS ) =>
      /\ CallsOf(w, "spawn") = <<>>
      /\ pc[w] # "output"
      /\ AtPop(w) =>
           /\ Len(CallsOf(w, "set_ex")) = 1
           /\ CallsOf(w, "set_ex")[1].b =
                as_bytes(ERROR_PREFIX \o UNSUPPORTED_PREFIX
                         \o CommandGiven(json_str[w]))

\* A DOCKER task whose details is the string "list_containers", not an
\* object, has been answered.
C4_Witness ==
  \E w \in running :
    /\ task[w] # NoTask
    /\ TypeIs(json_str[w], VARIANT_DOCKER)
    /\ json_str[w].details.kind = "string"
    /\ AtPop(w)
    /\ CallsOf(w, "set_ex")[1].b = as_bytes(ERROR_PREFIX \o UNSUPPORTED_PREFIX)

(***************************************************************************)
(* C2                                                                      *)
(***************************************************************************)
\* What the runtime guarantees a worker that is past the pop: a sleep ends,
\* the parse, the executor and the write return, and (the claim's proviso)
\* a launched subprocess exits.  Nothing is assumed about the pop itself.
Progress(w) ==
  Sleep(w) \/ Decode(w) \/ Execute(w) \/ SubprocessExit(w) \/ SetEx(w)

InitLive == InitWith({1}, "LivePayloads")

FairSpec ==
  InitLive /\ [][Next]_vars /\ \A w \in Workers : WF_vars(Progress(w))

InLoop(w) ==
  pc[w] \in {"pop", "sleep", "decode", "execute", "output", "set_ex"}

\* C2: a worker that has entered the loop is back at the blocking pop
\* after whatever the iteration brings: a pop error, a decode failure, an
\* executor error, a failed write.
C2_LoopNeverExits ==
  \A w \in Workers : [](InLoop(w) => <>AtPop(w))

\* A worker is back at the pop after an executor error whose write failed.
C2_Witness ==
  \E w \in running :
    /\ AtPop(w)
    /\ ~task_result[w].ok
    /\ Len(CallsOf(w, "set_ex")) = 1
    /\ ~CallsOf(w, "set_ex")[1].ok

(***************************************************************************)
(* C5                                                                      *)
(***************************************************************************)
\* The worker is back at the pop after a "list_containers" task whose
\* subprocess exited with the given kind of status.
Exited(w, zero) ==
  /\ AtPop(w)
  /\ task[w] # NoTask
  /\ TypeIs(json_str[w], VARIANT_DOCKER)
  /\ CommandGiven(json_str[w]) = LIST_CONTAINERS
  /\ Len(CallsOf(w, "exit")) = 1
  /\ (CallsOf(w, "exit")[1].n = 0) = zero
  /\ Len(CallsOf(w, "set_ex")) = 1

\* C5 as claimed: after a nonzero exit the value written is "ERROR: "
\* followed by exactly the standard-error text.
C5_AsClaimed ==
  \A w \in running :
    Exited(w, FALSE) =>
      CallsOf(w, "set_ex")[1].b =
        as_bytes(ERROR_PREFIX \o from_utf8_lossy(CallsOf(w, "exit")[1].b))

\* C5: after a nonzero exit the value written is
\* "ERROR: Docker command failed: " followed by the standard-error text,
\* whatever the subprocess wrote to standard output.
C5_NonzeroExitValue ==
  \A w \in running :
    Exited(w, FALSE) =>
      CallsOf(w, "set_ex")[1].b =
        as_bytes(ERROR_PREFIX \o DOCKER_FAILED_PREFIX
                 \o from_utf8_lossy(CallsOf(w, "exit")[1].b))

\* A nonzero exit with text on both streams has been answered.
C5_Witness ==
  \E w \in running :
    /\ Exited(w, FALSE)
    /\ CallsOf(w, "exit")[1].a = <<99, 10>>
    /\ CallsOf(w, "exit")[1].b = <<195, 169>>

(***************************************************************************)
(* C6                                                                      *)
(***************************************************************************)
\* C6 as claimed: after a zero exit the value written is "SUCCESS: "
\* followed by the bytes of standard output, unmodified.
C6_AsClaimed ==
  \A w \in running :
    Exited(w, TRUE) =>
      CallsOf(w, "set_ex")[1].b =
        as_bytes(SUCCESS_PREFIX) \o CallsOf(w, "exit")[1].a

\* C6: after a zero exit the value written is "SUCCESS: " followed by
\* standard output decoded as UTF-8 with every ill-formed sequence replaced
\* by U+FFFD; it is standard output byte for byte when that is UTF-8.
C6_ZeroExitValue ==
  \A w \in running :
    Exited(w, TRUE) =>
      LET stdout == CallsOf(w, "exit")[1].a
          val    == CallsOf(w, "set_ex")[1].b
      IN  /\ val = as_bytes(SUCCESS_PREFIX \o from_utf8_lossy(stdout))
          /\ IsUtf8(stdout) => val = as_bytes(SUCCESS_PREFIX) \o stdout

\* A zero exit whose standard output holds a two-byte character has been
\* answered with those bytes.
C6_Witness ==
  \E w \in running :
    /\ Exited(w, TRUE)
    /\ CallsOf(w, "exit")[1].a = <<195, 169>>
    /\ CallsOf(w, "set_ex")[1].b = as_bytes(SUCCESS_PREFIX) \o <<195, 169>>

(***************************************************************************)
(* C7                                                                      *)
(***************************************************************************)
\* C7: for a decoded SHELL task no subprocess is launched, and the one
\* value written is "SUCCESS: Shell command executed successfully.",
\* whatever details holds.
C7_ShellAlwaysSucceeds ==
  \A w \in running :
    (task[w] # NoTask /\ TypeIs(json_str[w], VARIANT_SHELL)) =>
      /\ CallsOf(w, "spawn") = <<>>
      /\ pc[w] # "output"
      /\ AtPop(w) =>
           /\ Len(CallsOf(w, "set_ex")) = 1
           /\ CallsOf(w, "set_ex")[1].b =
                as_bytes(SUCCESS_PREFIX \o SHELL_MOCK_OUTPUT)

\* A SHELL task whose details asks for "list_containers" has been answered.
C7_Witness ==
  \E w \in running :
    /\ task[w] # NoTask
    /\ TypeIs(json_str[w], VARIANT_SHELL)
    /\ CommandGiven(json_str[w]) = LIST_CONTAINERS
    /\ AtPop(w)
    /\ Len(CallsOf(w, "set_ex")) = 1

(***************************************************************************)
(* C8                                                                      *)
(***************************************************************************)
\* C8: after a failed pop the worker is either in its one sleep, having
\* done nothing else, or back at the pop having slept exactly once, for 5
\* seconds: no write, no exit, no second sleep in between.
C8_OneSleepAfterPopError ==
  \A w \in running :
    (trace[w] # <<>> /\ trace[w][1] = PopFailed) =>
      \/ pc[w] = "sleep" /\ trace[w] = <<PopFailed>>
      \/ AtPop(w) /\ trace[w] = <<PopFailed, Ev("sleep", TRUE, <<>>, <<>>, 5)>>

C8_Witness ==
  \E w \in running :
    /\ AtPop(w)
    /\ trace[w] = <<PopFailed, Ev("sleep", TRUE, <<>>, <<>>, 5)>>

(***************************************************************************)
(* C9                                                                      *)
(***************************************************************************)
\* The log lines that report an error.
ErrorLines ==
  { "FATAL: Redis client creation failed",
    "FATAL: Failed to get multiplexed Redis connection",
    "[ERROR] Redis Error in Loop",
    "[ERROR] JSON Parse Error" }

WriteFailed(w) ==
  /\ CallsOf(w, "set_ex") # <<>>
  /\ ~CallsOf(w, "set_ex")[1].ok

\* C9: when the set-with-expiry call fails, a log line reporting an error
\* is written, and the worker goes on to the next pop.
C9_WriteFailureLogged ==
  \A w \in running :
    WriteFailed(w) =>
      /\ AtPop(w)
      /\ \E i \in 1 .. Len(logs[w]) : logs[w][i] \in ErrorLines

(***************************************************************************)
(* C10                                                                     *)
(***************************************************************************)
\* C10: the step in which the set-with-expiry call fails leaves the store
\* and both lists as they were and takes the worker to the next pop with
\* that one call made and the executor run once: nothing is written again,
\* pushed back or executed again.
C10_FailedWriteIsLost ==
  [][ \A w \in running :
        (pc[w] = "set_ex" /\ trace'[w] # trace[w]
           /\ ~trace'[w][Len(trace'[w])].ok) =>
          /\ pc'[w] = "pop"
          /\ store' = store
          /\ queues' = queues
          /\ Len(SelectSeq(trace'[w], LAMBDA e : e.op = "set_ex")) = 1
          /\ Len(SelectSeq(trace'[w], LAMBDA e : e.op = "spawn")) <= 1
      ]_vars

\* A result was computed, its write failed, and no key holds it.
C10_Witness ==
  \E w \in running :
    /\ AtPop(w)
    /\ WriteFailed(w)
    /\ task_result[w].ok
    /\ \A e \in store : e.key # CallsOf(w, "set_ex")[1].a

(***************************************************************************)
(* C11                                                                     *)
(***************************************************************************)
FATAL_LINES ==
  {"FATAL: Redis client creation failed",
   "FATAL: Failed to get multiplexed Redis connection"}

\* Client construction or the initial connection of worker w has failed.
StartupFailed(w) ==
  \E i \in 1 .. Len(logs[w]) : logs[w][i] \in FATAL_LINES

\* C11: once client construction or the initial connection has failed, the
\* process has returned from main and stays there: it has made no pop, has
\* taken no payload, decoded and executed no task, made no set-with-expiry
\* call, and the failure it logged is the only one, so the connection was
\* not tried again.
C11_StartupFailureIsFatal ==
  \A w \in running :
    StartupFailed(w) =>
      /\ pc[w] = "exit"
      /\ trace[w] = <<>>
      /\ got[w] = {}
      /\ popped[w] = NoPop
      /\ json_str[w] = NoPayload
      /\ task[w] = NoTask
      /\ task_result[w] = NoResult
      /\ \/ logs[w] = <<"--- MCP-WORKER START ---",
                        "FATAL: Redis client creation failed">>
         \/ logs[w] = <<"--- MCP-WORKER START ---",
                        "FATAL: Failed to get multiplexed Redis connection">>

\* The connection failed while a payload was waiting in a list.
C11_Witness ==
  \E w \in running :
    /\ pc[w] = "exit"
    /\ logs[w][Len(logs[w])] = "FATAL: Failed to get multiplexed Redis connection"
    /\ first_nonempty(queues) # "none"
    /\ enqueued = MaxEnqueued

(***************************************************************************)
(* C12                                                                     *)
(***************************************************************************)
\* The decode of the payload worker w popped last is over.
DecodeFinished(w) ==
  /\ Len(logs[w]) >= 2
  /\ logs[w][2] = IF from_str(json_str[w]).ok THEN "Processing Task ID"
                                              ELSE "[ERROR] JSON Parse Error"
  /\ task[w] = from_str(json_str[w]).task

\* The executor has returned for the task worker w decoded last: it has a
\* result, and a subprocess it launched has exited.
ExecutionFinished(w) ==
  /\ task_result[w] # NoResult
  /\ CallsOf(w, "spawn") = <<Ev("spawn", TRUE, <<>>, <<>>, 0)>>
       => Len(CallsOf(w, "exit")) = 1

\* The write-back attempt for the task worker w decoded last has returned.
WriteBackFinished(w) ==
  /\ trace[w][Len(trace[w])].op = "set_ex"
  /\ logs[w][Len(logs[w])] = "Result for task written to Redis."

\* Worker w holds a popped payload whose handling is not over.
InFlight(w) ==
  /\ json_str[w] # NoPayload
  /\ ~ /\ DecodeFinished(w)
       /\ from_str(json_str[w]).ok =>
            ExecutionFinished(w) /\ WriteBackFinished(w)

\* C12: a worker holds one popped payload at most, and while the decode,
\* the execution or the write-back attempt of that payload is not over the
\* worker is in one of those steps: it is not blocked in, nor about to
\* issue, the next pop, and it has made one pop since the last one.
C12_OneTaskInFlight ==
  \A w \in running :
    /\ InFlight(w) => pc[w] \in {"decode", "execute", "output", "set_ex"}
    /\ AtPop(w) => ~InFlight(w)
    /\ Len(CallsOf(w, "blpop")) <= 1

\* The subprocess of a task is still running while another payload waits
\* in a list.
C12_Witness ==
  \E w \in running :
    /\ InFlight(w)
    /\ pc[w] = "output"
    /\ first_nonempty(queues) # "none"

(***************************************************************************)
(* C13                                                                     *)
(***************************************************************************)
\* Two worker processes on the same two lists of the same broker.
InitShared == InitWith({1, 2}, "SharedPayloads")

SharedSpec == InitShared /\ [][Next]_vars

\* The ordinals of the elements still in a list.
Waiting ==
  UNION {{queues[q][i].seq : i \in 1 .. Len(queues[q])} :
           q \in {queue_keys[1], queue_keys[2]}}

\* Worker w takes an element in this step.
PopStep(w) == pc[w] = "pop" /\ pc'[w] = "decode"

CountOf(seq, x) == Cardinality({i \in 1 .. Len(seq) : seq[i] = x})

\* C13: whatever the workers do, an element pushed onto either list is
\* handed to one worker at most and once at most: a pop never hands out an
\* element that a worker has had, no two workers have had the same element,
\* an element a worker has had is in no list any more, and for the element
\* it holds a worker runs the executor once at most and makes one
\* set-with-expiry call at most.
C13_PoppedByOneWorker ==
  /\ [](\A w \in running :
          /\ \A v \in running \ {w} : got[w] \cap got[v] = {}
          /\ got[w] \cap Waiting = {}
          /\ popped[w] # NoPop => popped[w].seq \in got[w]
          /\ CountOf(logs[w], "Executing task type") <= 1
          /\ Len(CallsOf(w, "spawn")) <= 1
          /\ Len(CallsOf(w, "set_ex")) <= 1)
  /\ [][\A w \in running :
          PopStep(w) =>
            /\ \A v \in running : popped'[w].seq \notin got[v]
            /\ got'[w] = got[w] \cup {popped'[w].seq}]_vars

\* Two workers have each taken one of two elements with the same payload
\* and each has written its result back.
C13_Witness ==
  /\ got[1] # {} /\ got[2] # {}
  /\ json_str[1] = json_str[2]
  /\ AtPop(1) /\ AtPop(2)
  /\ Len(CallsOf(1, "set_ex")) = 1
  /\ Len(CallsOf(2, "set_ex")) = 1

(***************************************************************************)
(* C14                                                                     *)
(***************************************************************************)
\* The seconds that pass in one step of the broker's clock.
TickSeconds == 1800

\* Time passes at the broker: every key is TickSeconds nearer to its expiry,
\* and a key whose time is up is gone.
Tick ==
  /\ store # {}
  /\ store' = {[e EXCEPT !.ttl = @ - TickSeconds] :
                 e \in {x \in store : x.ttl > TickSeconds}}
  /\ UNCHANGED <<running, pool, enqueued, queues, pc, popped, got, json_str,
                 task, task_result, trace, logs>>

NextTimed == Next \/ Tick

\* Two workers, and a broker whose clock runs.
TimedSpec == InitShared /\ [][NextTimed]_vars

\* Worker w's set-with-expiry call returns in this step.
WriteStep(w) == pc[w] = "set_ex" /\ pc'[w] # "set_ex"

\* C14: a key holds one value at most; when a set-with-expiry call
\* succeeds, the key it names holds afterwards the value of that call and
\* no other, with 3600 seconds to live, whatever it held before and however
\* long that had left, and no other key changes; a call that fails changes
\* nothing; and in every other step a key keeps the value it has, or is
\* gone because its time is up.  So a key that holds a value holds that of
\* the latest call that succeeded for it.
C14_WriteReplaces ==
  /\ [](\A e1, e2 \in store : e1.key = e2.key => e1 = e2)
  /\ [][\A w \in running :
          WriteStep(w) =>
            LET call == trace'[w][Len(trace'[w])] IN
            IF call.ok
              THEN /\ {e \in store' : e.key = call.a}
                        = {[key |-> call.a, val |-> call.b, ttl |-> 3600]}
                   /\ {e \in store' : e.key # call.a}
                        = {e \in store : e.key # call.a}
              ELSE store' = store]_vars
  /\ [][(\A w \in running : ~WriteStep(w)) =>
          \A n \in store' :
            \E e \in store : e.key = n.key /\ e.val = n.val /\ n.ttl <= e.ttl]_vars

\* Both workers have written a value for the same id with success, the two
\* values differ, and the key holds one of them with 3600 seconds to live.
C14_Witness ==
  LET w1 == CallsOf(1, "set_ex")
      w2 == CallsOf(2, "set_ex") IN
  /\ AtPop(1) /\ AtPop(2)
  /\ Len(w1) = 1 /\ Len(w2) = 1
  /\ w1[1].ok /\ w2[1].ok
  /\ w1[1].a = w2[1].a
  /\ w1[1].b # w2[1].b
  /\ store = {[key |-> w1[1].a, val |-> w1[1].b, ttl |-> 3600]}

(***************************************************************************)
(* C15                                                                     *)
(***************************************************************************)
\* The executor has failed for the task worker w decoded last: the command
\* of a DOCKER task is not supported, or the subprocess could not be
\* launched, or it exited with a nonzero status.
ExecutorFailed(w) ==
  /\ task[w] # NoTask
  /\ \/ /\ TypeIs(json_str[w], VARIANT_DOCKER)
        /\ CommandGiven(json_str[w]) # LIST_CONTAINERS
        /\ CountOf(logs[w], "Executing task type") = 1
     \/ Len(CallsOf(w, "spawn")) = 1 /\ ~CallsOf(w, "spawn")[1].ok
     \/ \E i \in 1 .. Len(trace[w]) :
          trace[w][i].op = "exit" /\ trace[w][i].n # 0

\* C15: once the executor has failed for a decoded task, the worker is at
\* the write-back or past it, never at the exit nor in the back-off sleep;
\* it makes no further launch; and when it is back at the pop it has made
\* one set-with-expiry call, for the key of the task, whose value begins
\* with "ERROR: " and is "ERROR: " followed by the executor's message.
C15_ExecutorFailureIsWritten ==
  \A w \in running :
    ExecutorFailed(w) =>
      /\ pc[w] \in {"set_ex", "pop"}
      /\ ~task_result[w].ok
      /\ pc[w] = "set_ex" => CallsOf(w, "set_ex") = <<>>
      /\ AtPop(w) =>
           LET writes == CallsOf(w, "set_ex") IN
           /\ Len(writes) = 1
           /\ writes[1].a = as_bytes(RESULT_KEY_PREFIX \o json_str[w].id.str)
           /\ BeginsWith(writes[1].b, as_bytes(ERROR_PREFIX))
           /\ writes[1].b = as_bytes(ERROR_PREFIX \o task_result[w].text)

\* The subprocess of a task could not be launched, and the worker is back
\* at the pop with the message of the launch in the value it wrote.
C15_Witness ==
  \E w \in running :
    /\ ExecutorFailed(w)
    /\ AtPop(w)
    /\ CallsOf(w, "spawn") = <<Ev("spawn", FALSE, <<>>, S_enoent, 0)>>
    /\ Len(CallsOf(w, "set_ex")) = 1
    /\ CallsOf(w, "set_ex")[1].b
         = as_bytes(ERROR_PREFIX \o LAUNCH_FAILED_PREFIX \o S_enoent)

(***************************************************************************)
(* C16                                                                     *)
(***************************************************************************)
\* The payload is an object whose task_type is a string other than "SHELL"
\* and "DOCKER", letter for letter.
NamesNoVariant(p) ==
  /\ p.form = "object"
  /\ p.task_type.kind = "string"
  /\ p.task_type.str \notin {VARIANT_SHELL, VARIANT_DOCKER}

\* C16: a popped payload whose task_type is a string other than "SHELL" and
\* "DOCKER", such as "docker" or "Shell", is never decoded into a task: the
\* executor is not run for it under any variant, no set-with-expiry call is
\* made, and the worker goes from the failed decode back to the pop.  A
\* task that was decoded has the variant its payload names letter for
\* letter.
C16_TaskTypeCaseSensitive ==
  \A w \in running :
    /\ NamesNoVariant(json_str[w]) =>
         /\ task[w] = NoTask
         /\ task_result[w] = NoResult
         /\ CountOf(logs[w], "Executing task type") = 0
         /\ CountOf(logs[w], "Processing Task ID") = 0
         /\ trace[w] = <<PoppedOk>>
         /\ pc[w] \in {"decode", "pop"}
         /\ AtPop(w) => logs[w] = <<">>> RECEIVED", "[ERROR] JSON Parse Error">>
    /\ task[w] # NoTask =>
         \/ task[w].task_type = "SHELL"
              /\ json_str[w].task_type = JStr(VARIANT_SHELL)
         \/ task[w].task_type = "DOCKER"
              /\ json_str[w].task_type = JStr(VARIANT_DOCKER)

\* A payload whose task_type differs from a variant name by the case of
\* its letters alone has been dropped.
C16_Witness ==
  \E w \in running :
    /\ NamesNoVariant(json_str[w])
    /\ to_ascii_uppercase(json_str[w].task_type.str) = VARIANT_SHELL
    /\ json_str[w].id.kind = "string"
    /\ json_str[w].target_host.kind = "string"
    /\ json_str[w].details.kind # "absent"
    /\ AtPop(w)
    /\ logs[w] = <<">>> RECEIVED", "[ERROR] JSON Parse Error">>

(***************************************************************************)
(* C17                                                                     *)
(***************************************************************************)
\* The ordinals of the elements of a list, head first.
SeqsOf(q) == [i \in 1 .. Len(queues[q]) |-> queues[q][i].seq]

\* C17: a list holds its elements in the order they were pushed; a pop
\* hands the worker the head of the list it names, which is the element of
\* that list that was pushed first, and takes that element and no other
\* out of the lists; and a pop that answers from "mcp::tasks::docker" does
\* so in a state where "mcp::tasks::shell" is empty.
C17_ShellFirstEachFifo ==
  /\ [](\A q \in {"mcp::tasks::shell", "mcp::tasks::docker"} :
          \A i, j \in 1 .. Len(queues[q]) :
            i < j => SeqsOf(q)[i] < SeqsOf(q)[j])
  /\ [][\A w \in running :
          PopStep(w) =>
            LET q == popped'[w].queue_name IN
            /\ q \in {"mcp::tasks::shell", "mcp::tasks::docker"}
            /\ queues[q] # <<>>
            /\ popped'[w].seq = queues[q][1].seq
            /\ json_str'[w] = queues[q][1].payload
            /\ \A i \in 1 .. Len(queues[q]) : popped'[w].seq <= SeqsOf(q)[i]
            /\ queues'[q] = Tail(queues[q])
            /\ \A o \in {"mcp::tasks::shell", "mcp::tasks::docker"} \ {q} :
                 queues'[o] = queues[o]
            /\ q = "mcp::tasks::docker" => queues["mcp::tasks::shell"] = <<>>]_vars

\* The element pushed first went onto the docker list and was popped after
\* the element pushed second, which went onto the shell list.
C17_Witness ==
  \E w \in running :
    /\ got[w] = {1, 2}
    /\ popped[w] = [queue_name |-> "mcp::tasks::docker", seq |-> 1]

(***************************************************************************)
(* C18                                                                     *)
(***************************************************************************)
\* What became of the subprocess of the payload worker w popped last: its
\* launch and, when it was launched, its exit.
OwnOutcome(w) ==
  SelectSeq(trace[w], LAMBDA e : e.op \in {"spawn", "exit"})

\* The result a payload and the outcome of its subprocess give.
ResultFor(p, outcome) ==
  IF TypeIs(p, VARIANT_SHELL) THEN Ok(SHELL_MOCK_OUTPUT)
  ELSE IF CommandGiven(p) # LIST_CONTAINERS
    THEN Err(UNSUPPORTED_PREFIX \o CommandGiven(p))
  ELSE IF ~outcome[1].ok THEN Err(LAUNCH_FAILED_PREFIX \o outcome[1].b)
  ELSE IF outcome[2].n = 0 THEN Ok(from_utf8_lossy(outcome[2].a))
  ELSE Err(DOCKER_FAILED_PREFIX \o from_utf8_lossy(outcome[2].b))

\* The key and the value a payload and the outcome of its subprocess give.
WriteFor(p, outcome) ==
  LET r == ResultFor(p, outcome) IN
  [key |-> as_bytes(RESULT_KEY_PREFIX \o p.id.str),
   val |-> as_bytes((IF r.ok THEN SUCCESS_PREFIX ELSE ERROR_PREFIX) \o r.text)]

\* C18: in every state the worker can reach, whatever it popped, failed to
\* pop or failed to write before, the key and the value of a
\* set-with-expiry call are those that the payload popped last and the
\* outcome of that payload's own subprocess give, by one and the same
\* function; and a payload that launches no subprocess has no outcome.
C18_NoCrossTaskState ==
  \A w \in running :
    /\ \A i \in 1 .. Len(trace[w]) :
         trace[w][i].op = "set_ex" =>
           [key |-> trace[w][i].a, val |-> trace[w][i].b]
             = WriteFor(json_str[w], OwnOutcome(w))
    /\ task[w] # NoTask /\ arm_of(task[w]) # "list_containers"
         => OwnOutcome(w) = <<>>

\* The worker has written the result of a second payload, after a first
\* one with another id whose result is in the store, and the subprocess of
\* the second exited with a status other than 0.
C18_Witness ==
  \E w \in running :
    /\ got[w] = {1, 2}
    /\ AtPop(w)
    /\ Len(OwnOutcome(w)) = 2
    /\ OwnOutcome(w)[2].n # 0
    /\ Len(CallsOf(w, "set_ex")) = 1
    /\ Cardinality(store) = 2

(***************************************************************************)
(* C19                                                                     *)
(***************************************************************************)
\* The payload is an object with a string id and a task_type that names a
\* variant, and has no target_host member or no details member.
LacksField(p) ==
  /\ p.form = "object"
  /\ p.id.kind = "string"
  /\ p.task_type \in {JStr(VARIANT_SHELL), JStr(VARIANT_DOCKER)}
  /\ p.target_host.kind = "absent" \/ p.details.kind = "absent"

\* C19: a popped payload with a valid id and task_type and without a
\* target_host or without a details member is never decoded into a task,
\* SHELL or DOCKER: the executor is not run, no subprocess is launched, no
\* set-with-expiry call is made, and after the failed decode the worker is
\* back at the pop with the parse error as its last log line.
C19_MissingFieldDropsPayload ==
  \A w \in running :
    LacksField(json_str[w]) =>
      /\ ~from_str(json_str[w]).ok
      /\ task[w] = NoTask
      /\ task_result[w] = NoResult
      /\ OwnOutcome(w) = <<>>
      /\ CallsOf(w, "set_ex") = <<>>
      /\ CountOf(logs[w], "Executing task type") = 0
      /\ pc[w] \in {"decode", "pop"}
      /\ AtPop(w) => logs[w][Len(logs[w])] = "[ERROR] JSON Parse Error"

\* A SHELL payload without a details member has been dropped.
C19_Witness ==
  \E w \in running :
    /\ LacksField(json_str[w])
    /\ json_str[w].task_type = JStr(VARIANT_SHELL)
    /\ json_str[w].target_host.kind = "string"
    /\ json_str[w].details.kind = "absent"
    /\ AtPop(w)
    /\ store = {}

(***************************************************************************)
(* C20                                                                     *)
(***************************************************************************)
\* A steady stream of SHELL tasks: whenever "mcp::tasks::shell" is empty a
\* submitter may push one more onto it, any number of times in a run.  The
\* elements of the stream are not told apart: each carries the ordinal 0.
ShellArrives ==
  /\ queues["mcp::tasks::shell"] = <<>>
  /\ \E p \in {x \in PoolOf(pool) : TypeIs(x, VARIANT_SHELL)} :
       queues' = rpush(queues, "mcp::tasks::shell", Element(0, p))
  /\ UNCHANGED <<running, pool, enqueued, store, pc, popped, got, json_str,
                 task, task_result, trace, logs>>

NextSteady == Next \/ ShellArrives

\* One worker, and tasks that go each way through the executor.
InitSteady == InitWith({1}, "SharedPayloads")

\* The worker of the run under the claim's provisos: the steps past the pop
\* are taken (Progress), and pop failures do not go on for ever, so that a
\* pop that can answer again and again does answer.
SteadySpec ==
  /\ InitSteady
  /\ [][NextSteady]_vars
  /\ WF_vars(Progress(1))
  /\ SF_vars(BlPop(1))

\* The element pushed as the s-th waits in the docker list.
InDocker(s) ==
  \E i \in 1 .. Len(queues["mcp::tasks::docker"]) :
    queues["mcp::tasks::docker"][i].seq = s

\* A worker has popped the element pushed as the s-th and, if its payload
\* decodes, has made the set-with-expiry call for it.
Served(s) ==
  \E w \in running :
    /\ popped[w].seq = s
    /\ from_str(json_str[w]).ok => Len(CallsOf(w, "set_ex")) >= 1

\* C20 as claimed: with a worker in its loop, every element pushed onto
\* "mcp::tasks::docker" is popped in the end and, if it decodes, has its
\* write attempted, also when payloads keep arriving on "mcp::tasks::shell".
C20_AsClaimed ==
  \A s \in 1 .. MaxEnqueued :
    (InDocker(s) /\ \E w \in running : InLoop(w)) ~> Served(s)

\* C20, amended: with a worker in its loop, every element pushed onto
\* "mcp::tasks::docker" is popped in the end and, if it decodes, has its
\* write attempted, provided payloads stop arriving on "mcp::tasks::shell"
\* from some time on.
C20_DockerServedOnceShellDrains ==
  <>[][~ShellArrives]_vars =>
    \A s \in 1 .. MaxEnqueued :
      (InDocker(s) /\ \E w \in running : InLoop(w)) ~> Served(s)

\* The worker has served an element of the docker list after it had taken
\* elements of the steady stream on the shell list.
C20_Witness ==
  \E w \in running :
    /\ 0 \in got[w]
    /\ popped[w].queue_name = "mcp::tasks::docker"
    /\ Served(popped[w].seq)
    /\ Len(CallsOf(w, "set_ex")) = 1
    /\ queues["mcp::tasks::shell"] # <<>>

=============================================================================
